---- MODULE Spec2Model ----
(***************************************************************************)
(* Listing ingestion and deduplication of the Tunisia Real Estate          *)
(* Aggregator API: the two ingestion handlers (POST /ingest/{source},      *)
(* POST /api/listings), the moderation handlers (approve, reject) and the  *)
(* store helpers they call (upsert_document, update_by_id), run by         *)
(* concurrent request workers against one "listing" collection.            *)
(***************************************************************************)
EXTENDS Integers, Sequences, FiniteSets, TLC

VARIABLES
    docs,     \* the "listing" collection, in natural (insertion) order
    clock,    \* the wall clock read by datetime.now(timezone.utc)
    db,       \* database.db: "connected", "none" when the env vars are unset, or
              \* "unreachable": a handle whose server no longer answers
    w,        \* per request worker: the handler it runs, its locals, its position
    log,      \* the responses returned so far, in order of completion
    ncalls,   \* the number of requests accepted so far
    feed      \* the scraper feed the requests of this run carry: a set of raw items

vars == <<docs, clock, db, w, log, ncalls, feed>>

(***************************************************************************)
(* Bounds of the model.                                                    *)
(***************************************************************************)
NumWorkers == 2     \* requests served concurrently
MaxCalls == 3       \* requests per behaviour
MaxItems == 2       \* items of one batch

Workers == 1..NumWorkers

(***************************************************************************)
(* Python values.  Every value carries its type, because str() and the     *)
(* BSON encoder act by type: t is the type, s the text of a str or Url,    *)
(* n the number of an int, float or timestamp, d and h the date and the    *)
(* time of day of a datetime (or of a str holding an ISO-8601 timestamp).  *)
(***************************************************************************)
Mk(t, s, n, d, h) == [t |-> t, s |-> s, n |-> n, d |-> d, h |-> h]
PyNone == Mk("NoneType", "", 0, "", "")
PyStr(s) == Mk("str", s, 0, "", "")
PyInt(n) == Mk("int", "", n, "", "")
PyFloat(n) == Mk("float", "", n, "", "")
PyUrl(s) == Mk("Url", s, 0, "", "")
PyIsoStr(d, h) == Mk("str", d \o "T" \o h, 0, d, h)
PyDatetime(d, h) == Mk("datetime", "", 0, d, h)
PyTime(n) == Mk("utc", "", n, "", "")
PyEmptyList == Mk("list", "", 0, "", "")

Digit(k) ==
    CASE k = 0 -> "0" [] k = 1 -> "1" [] k = 2 -> "2" [] k = 3 -> "3"
      [] k = 4 -> "4" [] k = 5 -> "5" [] k = 6 -> "6" [] k = 7 -> "7"
      [] k = 8 -> "8" [] k = 9 -> "9"

RECURSIVE NatToStr(_)
NatToStr(n) == IF n < 10 THEN Digit(n) ELSE NatToStr(n \div 10) \o Digit(n % 10)

IntToStr(n) == IF n < 0 THEN "-" \o NatToStr(-n) ELSE NatToStr(n)

\* str(v), as the f-string of the dedup key applies it
Str(v) ==
    CASE v.t = "str" -> v.s
      [] v.t = "NoneType" -> "None"
      [] v.t = "int" -> IntToStr(v.n)
      [] v.t = "float" -> IntToStr(v.n) \o ".0"
      [] v.t = "datetime" -> v.d \o " " \o v.h
      [] v.t = "Url" -> v.s
      [] v.t = "utc" -> IntToStr(v.n)

\* bool(v), as "or" applies it
Truthy(v) ==
    CASE v.t = "NoneType" -> FALSE
      [] v.t = "str" -> v.s # ""
      [] v.t \in {"int", "float"} -> v.n # 0
      [] v.t = "list" -> v.n # 0
      [] OTHER -> TRUE

\* d.get(k, '') inside the f-string
GetStr(d, k) == IF k \in DOMAIN d THEN Str(d[k]) ELSE ""

\* d.get(k)
Get(d, k) == IF k \in DOMAIN d THEN d[k] ELSE PyNone

\* dict(d) followed by d[k] = v
Put(d, k, v) == [x \in DOMAIN d \cup {k} |-> IF x = k THEN v ELSE d[x]]

\* {**d, **e}: the keys of e win
Merge(d, e) == [x \in DOMAIN d \cup DOMAIN e |-> IF x \in DOMAIN e THEN e[x] ELSE d[x]]

(***************************************************************************)
(* The requests clients send.  A raw payload is a JSON object: a function  *)
(* from the keys it carries to their values.                               *)
(***************************************************************************)
AllowedSources == {"facebook", "tayara", "tunisie-annonces", "other"}
Statuses == {"pending", "approved", "rejected"}

WellFormedUrls == {"https://tayara.tn/x"}

EmptyDict == [x \in {} |-> PyNone]
ItemUrl == [title |-> PyStr("Studio"), price |-> PyInt(300), url |-> PyStr("https://tayara.tn/x")]
ItemUrlRepriced == [title |-> PyStr("Studio"), price |-> PyInt(450), url |-> PyStr("https://tayara.tn/x")]
ItemNoUrl == [title |-> PyStr("Studio"), price |-> PyInt(300), posted_at |-> PyIsoStr("2024-05-01", "10:00:00")]
ItemNulls == [title |-> PyStr("Studio"), price |-> PyNone, posted_at |-> PyNone]
ItemNegative == [title |-> PyStr("Studio"), price |-> PyInt(-10)]
ItemStamped == [title |-> PyStr("Studio"), url |-> PyStr("https://tayara.tn/x"), created_at |-> PyInt(0)]
ItemForeign == [title |-> PyStr("Studio"), price |-> PyInt(300), source |-> PyStr("craigslist")]

\* a run's requests are about one feed: the same listing seen again, repriced,
\* without a url, malformed, or naming a source of its own; or nothing at all
Feeds ==
    {{ItemUrl, ItemUrlRepriced}, {ItemNoUrl, ItemNulls}, {ItemNegative, EmptyDict},
     {ItemUrl, ItemStamped}, {ItemForeign}, {}}

\* the bodies of POST /ingest/{source}, as the list of their items: one item,
\* or a batch under "items"; a scraper run that found nothing posts {"items": []}
IngestBodies == IF feed = {} THEN {<<>>} ELSE UNION {[1..n -> feed] : n \in 1..MaxItems}

\* the body {"items": []}, and payload.get("items") or [payload]: an empty
\* list is falsy, so the body itself becomes the one item of the loop
EmptyBatch == [items |-> PyEmptyList]
Items(body) == IF body = <<>> THEN <<EmptyBatch>> ELSE body

\* the (source, body) pairs of POST /ingest/{source}
IngestRequests ==
    {<<"tayara", b>> : b \in IngestBodies} \cup
    {<<"craigslist", <<x>>>> : x \in {y \in feed : y \in {ItemUrl, ItemForeign}}}

\* the (source, listing) pairs of POST /api/listings
CreateRequests ==
    {<<"tayara", x>> : x \in feed} \cup
    {<<"craigslist", x>> : x \in {y \in feed : y \in {ItemUrl, ItemForeign}}}

(***************************************************************************)
(* schemas.Listing: validation of a request body and model_dump().  Of the *)
(* optional fields that default to None and carry no constraint the claims *)
(* touch, the model keeps lat, lng, geocoded_city and geocoded_area.       *)
(***************************************************************************)
ListingValid(raw) ==
    /\ "title" \in DOMAIN raw /\ raw["title"].t = "str"
    /\ \/ Get(raw, "price").t = "NoneType"
       \/ Get(raw, "price").t \in {"int", "float"} /\ Get(raw, "price").n >= 0
    /\ \/ Get(raw, "url").t = "NoneType"
       \/ Get(raw, "url").t = "str" /\ Get(raw, "url").s \in WellFormedUrls
    /\ \/ Get(raw, "posted_at").t = "NoneType"
       \/ Get(raw, "posted_at").t = "str" /\ Get(raw, "posted_at").d # ""
    /\ "source" \in DOMAIN raw /\ raw["source"].t = "str" /\ raw["source"].s \in AllowedSources
    /\ "status" \in DOMAIN raw => raw["status"].t = "str" /\ raw["status"].s \in Statuses

\* payload.listing.model_dump(): every field of the schema, coerced to its type
model_dump(raw) ==
    [title |-> raw["title"],
     price |-> IF Get(raw, "price").t = "NoneType" THEN PyNone ELSE PyFloat(raw["price"].n),
     property_type |-> IF "property_type" \in DOMAIN raw THEN raw["property_type"] ELSE PyStr("other"),
     url |-> IF Get(raw, "url").t = "NoneType" THEN PyNone ELSE PyUrl(raw["url"].s),
     source |-> raw["source"],
     posted_at |-> IF Get(raw, "posted_at").t = "NoneType" THEN PyNone
                   ELSE PyDatetime(raw["posted_at"].d, raw["posted_at"].h),
     status |-> IF "status" \in DOMAIN raw THEN raw["status"] ELSE PyStr("pending"),
     dedup_key |-> PyNone,
     lat |-> PyNone, lng |-> PyNone, geocoded_city |-> PyNone, geocoded_area |-> PyNone]

(***************************************************************************)
(* The dedup key, the same expression in both handlers:                    *)
(*   d.get('url') or f"{d.get('title','')}-{d.get('price','')}-{d.get('posted_at','')}" *)
(***************************************************************************)
DedupKey(d) ==
    IF Truthy(Get(d, "url")) THEN d["url"]
    ELSE PyStr(GetStr(d, "title") \o "-" \o GetStr(d, "price") \o "-" \o GetStr(d, "posted_at"))

(***************************************************************************)
(* The store.  A document is a function from its field names to values;    *)
(* its _id is its position in docs (documents are never deleted).  The     *)
(* string form of an ObjectId and the ObjectId are one value here.         *)
(***************************************************************************)
PyOid(i) == Mk("ObjectId", "", i, "", "")

\* what bson can encode: every value here but a pydantic Url, which model_dump()
\* leaves in the dict as an object (it is no str)
BsonEncodable(v) == v.t # "Url"

\* collection.find_one(filter): the first document matching {"dedup_key": key}
MatchIdsIn(store, key) ==
    {i \in 1..Len(store) : "dedup_key" \in DOMAIN store[i] /\ store[i]["dedup_key"] = key}
MatchIds(key) == MatchIdsIn(docs, key)
FirstMatch(key) == CHOOSE i \in MatchIds(key) : \A j \in MatchIds(key) : i <= j

\* pymongo encodes filter and update before sending; the server refuses an
\* update whose $set and $setOnInsert name the same path
UpdateRaises(key, data) ==
    \/ ~BsonEncodable(key)
    \/ \E k \in DOMAIN data : ~BsonEncodable(data[k])
    \/ "created_at" \in DOMAIN data

\* the document an upsert inserts: the filter's equality fields, $set, $setOnInsert
UpsertedDoc(id, key, data, now) ==
    Merge(Merge([_id |-> PyOid(id), dedup_key |-> key], data), [created_at |-> PyTime(now)])

\* a $set that also carries created_at, as if it were not under $setOnInsert
SetFieldsStamping(doc, data) == Merge(doc, Put(data, "created_at", data["updated_at"]))

\* an update that replaces the document (replace_one) instead of a $set
SetFieldsReplacing(doc, data) == Merge([_id |-> doc["_id"]], data)

\* $set on an existing document
SetFields(doc, data) == Merge(doc, data)

(***************************************************************************)
(* Request workers.                                                        *)
(***************************************************************************)
Idle == [pc |-> "idle"]

\* the server hands a new request to a free worker: the first one
Free(p) == w[p].pc = "idle" /\ \A q \in Workers : q < p => w[q].pc # "idle"

InFlight(p) == w[p].pc # "idle"

\* a request that enters a handler body: it and the requests in flight overlap
Enter(p, st) ==
    [q \in Workers |->
        IF q = p THEN [st EXCEPT !.overl = {w[r].cid : r \in {x \in Workers \ {p} : InFlight(x)}}]
        ELSE IF InFlight(q) THEN [w[q] EXCEPT !.overl = @ \cup {st.cid}]
        ELSE w[q]]

Locals(path, source, items, lid) ==
    [pc |-> "loop", path |-> path, source |-> source, items |-> items, lid |-> lid,
     i |-> 1, created |-> 0, updated |-> 0, ids |-> <<>>, keys |-> <<>>,
     data |-> EmptyDict, key |-> PyNone, now |-> 0,
     cid |-> ncalls + 1, overl |-> {}, fresh |-> docs = <<>>]

Response(st, code, store) ==
    [path |-> st.path, source |-> st.source, items |-> st.items, lid |-> st.lid,
     code |-> code, created |-> st.created, updated |-> st.updated, ids |-> st.ids,
     keys |-> st.keys, cid |-> st.cid, overl |-> st.overl, fresh |-> st.fresh,
     ndocs |-> Len(store),
     nmatch |-> [j \in 1..Len(st.keys) |-> Cardinality(MatchIdsIn(store, st.keys[j]))]]

\* the handler returns or raises: the response is recorded and the worker is free
Respond(p, st, code, store) ==
    /\ log' = Append(log, Response(st, code, store))
    /\ w' = [w EXCEPT ![p] = Idle]

\* an ingest loop that kept a source the item names (setdefault, not assignment)
IngestDictKeeping(source, item) ==
    IF "source" \in DOMAIN item THEN item ELSE Put(item, "source", PyStr(source))

\* the dict each handler passes to upsert_document, before the key is attached
IngestDict(source, item) == Put(item, "source", PyStr(source))
CreateDict(source, item) == model_dump(Put(item, "source", PyStr(source)))
HandlerDict(path, source, item) ==
    IF path = "create" THEN CreateDict(source, item) ELSE IngestDict(source, item)

\* upsert_document's data: dict(data) with updated_at = now
upsert_data(d, key, now) == Put(Put(d, "dedup_key", key), "updated_at", PyTime(now))

\* upsert_document returned (id, is_new) to the handler: the loop's bookkeeping,
\* then the next item, or the response after the last one
upsert_returned(p, id, is_new, store) ==
    LET st == [w[p] EXCEPT !.ids = Append(@, id),
                           !.created = IF is_new THEN @ + 1 ELSE @,
                           !.updated = IF is_new THEN @ ELSE @ + 1]
    IN  IF st.i = Len(st.items)
        THEN Respond(p, st, 200, store)
        ELSE /\ w' = [w EXCEPT ![p] = [st EXCEPT !.i = @ + 1, !.pc = "loop"]]
             /\ log' = log

\* POST /ingest/{source}: the source check and the set-up of the loop
ingest_source(p) ==
    /\ Free(p)
    /\ ncalls < MaxCalls
    /\ ncalls' = ncalls + 1
    /\ \E rq \in IngestRequests :
         LET source == rq[1]
             body == rq[2]
             st == Locals("ingest", source, Items(body), 0)
         IN  IF source \notin AllowedSources
             THEN Respond(p, st, 400, docs)
             ELSE w' = Enter(p, st) /\ log' = log
    /\ UNCHANGED <<docs, clock, db, feed>>

\* one turn of the loop up to the store call: it, its dedup key, and
\* upsert_document's prologue (the db check, the clock read, the update's data)
ingest_source_item(p) ==
    /\ w[p].pc = "loop"
    /\ LET it == IngestDict(w[p].source, w[p].items[w[p].i])
           key == DedupKey(it)
           st == [w[p] EXCEPT !.key = key, !.keys = Append(@, key)]
       IN  IF db = "none"
           THEN Respond(p, st, 500, docs) /\ clock' = clock
           ELSE /\ w' = [w EXCEPT ![p] = [st EXCEPT !.pc = "update_one", !.now = clock,
                                                     !.data = upsert_data(it, key, clock)]]
                /\ clock' = clock + 1
                /\ log' = log
    /\ UNCHANGED <<docs, db, ncalls, feed>>

\* POST /api/listings: the body's validation, model_dump, the dedup key and
\* upsert_document's prologue
create_listing(p) ==
    /\ Free(p)
    /\ ncalls < MaxCalls
    /\ ncalls' = ncalls + 1
    /\ \E rq \in CreateRequests :
         LET source == rq[1]
             x == rq[2]
             l == CreateDict(source, x)
             key == DedupKey(l)
             st0 == Locals("create", source, <<x>>, 0)
             st == [st0 EXCEPT !.key = key, !.keys = <<key>>]
         IN  IF ~ListingValid(Put(x, "source", PyStr(source)))
             THEN Respond(p, st0, 422, docs) /\ clock' = clock
             ELSE IF db = "none"
             THEN Respond(p, st, 500, docs) /\ clock' = clock
             ELSE /\ w' = Enter(p, [st EXCEPT !.pc = "update_one", !.now = clock,
                                              !.data = upsert_data(l, key, clock)])
                  /\ clock' = clock + 1
                  /\ log' = log
    /\ UNCHANGED <<docs, db, feed>>

\* update_one(filter, {$set, $setOnInsert}, upsert=True): the query phase, and
\* the update of the document it matched.  The collection has no unique index
\* on dedup_key (none is created at start-up), so the server does not
\* serialise upserts of one key: the insert of an upsert that matched nothing
\* is a later step, and another upsert's query phase may run in between.
update_one(p) ==
    /\ w[p].pc = "update_one"
    /\ IF db = "unreachable" \/ UpdateRaises(w[p].key, w[p].data)
       THEN Respond(p, w[p], 500, docs) /\ docs' = docs
       ELSE IF MatchIds(w[p].key) # {}
       THEN /\ docs' = [docs EXCEPT ![FirstMatch(w[p].key)] = SetFields(@, w[p].data)]
            /\ w' = [w EXCEPT ![p] = [@ EXCEPT !.pc = "find_one"]]
            /\ log' = log
       ELSE /\ docs' = docs
            /\ w' = [w EXCEPT ![p] = [@ EXCEPT !.pc = "insert"]]
            /\ log' = log
    /\ UNCHANGED <<clock, db, ncalls, feed>>

\* the insert phase of the upsert; upserted_id is set, so (id, True) is returned
update_one_upsert(p) ==
    /\ w[p].pc = "insert"
    /\ LET id == Len(docs) + 1
           store == Append(docs, UpsertedDoc(id, w[p].key, w[p].data, w[p].now))
       IN  /\ docs' = store
           /\ upsert_returned(p, PyOid(id), TRUE, store)
    /\ UNCHANGED <<clock, db, ncalls, feed>>

\* the follow-up find_one(filter, {"_id": 1}) when nothing was upserted
find_one(p) ==
    /\ w[p].pc = "find_one"
    /\ IF db = "unreachable"
       THEN Respond(p, w[p], 500, docs)
       ELSE upsert_returned(p,
                IF MatchIds(w[p].key) # {} THEN PyOid(FirstMatch(w[p].key)) ELSE PyNone,
                FALSE, docs)
    /\ UNCHANGED <<docs, clock, db, ncalls, feed>>

\* POST /api/listings/{id}/approve and /reject up to the store call:
\* update_by_id's db check and clock read
moderate_listing(p) ==
    /\ Free(p)
    /\ ncalls < MaxCalls
    /\ ncalls' = ncalls + 1
    /\ \E verb \in {"approve", "reject"}, lid \in 1..Len(docs) :
         LET st == Locals(verb, "", <<>>, lid)
             updates == [status |-> PyStr(IF verb = "approve" THEN "approved" ELSE "rejected"),
                         updated_at |-> PyTime(clock)]
         IN  IF db = "none"
             THEN Respond(p, st, 500, docs) /\ clock' = clock
             ELSE /\ w' = Enter(p, [st EXCEPT !.pc = "update_by_id", !.data = updates,
                                              !.now = clock])
                  /\ clock' = clock + 1
                  /\ log' = log
    /\ UNCHANGED <<docs, db, feed>>

\* update_one({"_id": ObjectId(_id)}, {"$set": updates}); modified_count is returned
update_by_id(p) ==
    /\ w[p].pc = "update_by_id"
    /\ LET store == IF w[p].lid \in 1..Len(docs)
                    THEN [docs EXCEPT ![w[p].lid] = SetFields(@, w[p].data)]
                    ELSE docs
       IN  IF db = "unreachable"
           THEN docs' = docs /\ Respond(p, w[p], 500, docs)
           ELSE /\ docs' = store
                /\ Respond(p, [w[p] EXCEPT !.updated = IF w[p].lid \in 1..Len(docs) THEN 1 ELSE 0],
                           200, store)
    /\ UNCHANGED <<clock, db, ncalls, feed>>

Init ==
    /\ docs = <<>>
    /\ clock = 1
    /\ db \in {"connected", "none"}
    /\ w = [p \in Workers |-> Idle]
    /\ log = <<>>
    /\ ncalls = 0
    /\ feed \in Feeds

Next ==
    \E p \in Workers :
        \/ ingest_source(p)
        \/ ingest_source_item(p)
        \/ create_listing(p)
        \/ update_one(p)
        \/ update_one_upsert(p)
        \/ find_one(p)
        \/ moderate_listing(p)
        \/ update_by_id(p)

Spec == Init /\ [][Next]_vars

(***************************************************************************)
(* The same handlers against a store that can stop answering: db is still  *)
(* a handle (not None), and every later call on it raises.                 *)
(***************************************************************************)
store_unreachable ==
    /\ db = "connected"
    /\ db' = "unreachable"
    /\ UNCHANGED <<docs, clock, w, log, ncalls, feed>>

InitOutage ==
    /\ docs = <<>>
    /\ clock = 1
    /\ db \in {"connected", "none"}
    /\ w = [p \in Workers |-> Idle]
    /\ log = <<>>
    /\ ncalls = 0
    /\ feed = {ItemNoUrl, ItemNulls}

NextOutage == Next \/ store_unreachable

SpecOutage == InitOutage /\ [][NextOutage]_vars

(***************************************************************************)
(* The same handlers next to the geocoding collaborator, which writes the  *)
(* enrichment attributes of a stored listing (it is no part of the         *)
(* handlers: it is taken from the specification's data model).             *)
(***************************************************************************)
EnrichmentFields == {"lat", "lng", "geocoded_city", "geocoded_area"}

Geocoded ==
    [lat |-> PyFloat(36), lng |-> PyFloat(10),
     geocoded_city |-> PyStr("Tunis"), geocoded_area |-> PyStr("Lac")]

enrich ==
    /\ db = "connected"
    /\ \E i \in 1..Len(docs) :
         /\ \A f \in EnrichmentFields : Get(docs[i], f) = PyNone
         /\ docs' = [docs EXCEPT ![i] = SetFields(@, Geocoded)]
    /\ UNCHANGED <<clock, db, w, log, ncalls, feed>>

InitEnrich ==
    /\ docs = <<>>
    /\ clock = 1
    /\ db \in {"connected", "none"}
    /\ w = [p \in Workers |-> Idle]
    /\ log = <<>>
    /\ ncalls = 0
    /\ feed = {ItemNoUrl}

NextEnrich == Next \/ enrich

SpecEnrich == InitEnrich /\ [][NextEnrich]_vars

(***************************************************************************)
(* Properties.                                                             *)
(***************************************************************************)
Ingestions == {j \in 1..Len(log) : log[j].path \in {"ingest", "create"}}
Succeeded == {j \in Ingestions : log[j].code = 200}

Has(doc, k) == k \in DOMAIN doc /\ doc[k].t # "NoneType"

\* the second of two ingestions ran wholly after the first returned
After(j, k) == j < k /\ log[k].cid \notin log[j].overl

\* a request to either ingestion path carrying one item
Single(j) == j \in Ingestions /\ Len(log[j].items) = 1

SameRequest(j, k) ==
    /\ log[j].path = log[k].path
    /\ log[j].source = log[k].source
    /\ log[j].items = log[k].items

\* every request so far was served with no other request in flight
Serial == \A p \in Workers : InFlight(p) => w[p].overl = {}

\* moderation status as the API reads it: a document without the field is pending
StatusOf(doc) == IF Has(doc, "status") THEN doc["status"].s ELSE "pending"

\* C1: the collection holds at most one record per dedup_key, and exactly one
\* for every dedup_key of an ingestion that succeeded.
C1_OneRecordPerDedupKey ==
    /\ \A i, j \in 1..Len(docs) : docs[i]["dedup_key"] = docs[j]["dedup_key"] => i = j
    /\ \A j \in Succeeded : \A k \in 1..Len(log[j].keys) :
         Cardinality(MatchIds(log[j].keys[k])) = 1

\* C2: the same payload with an unchanged url ingested twice, the second time
\* after the first returned, yields exactly one record: the first call
\* reports created, the second reports not created and returns the
\* identifier the first returned.
C2_SecondIngestionIsUpdate ==
    \A j, k \in Ingestions :
        /\ Single(j) /\ Single(k) /\ SameRequest(j, k)
        /\ log[j].source \in AllowedSources
        /\ Truthy(Get(log[j].items[1], "url"))
        /\ "created_at" \notin DOMAIN log[j].items[1]
        /\ log[j].fresh /\ log[j].overl = {} /\ log[k].overl = {} /\ k = j + 1
        /\ db = "connected"
        => /\ log[j].code = 200 /\ log[j].created = 1
           /\ log[k].code = 200 /\ log[k].created = 0 /\ log[k].updated = 1
           /\ log[k].ids = log[j].ids /\ log[j].ids[1].t = "ObjectId"
           /\ log[j].ndocs = 1 /\ log[k].ndocs = 1

\* C3: two ingestions of one dedup_key that run concurrently leave exactly one
\* record for the key, one of them reports created and the other updated, and
\* neither fails.  Stated for payloads the store accepts when ingested alone.
C3_RaceYieldsOneCreated ==
    \A j, k \in Ingestions :
        /\ Single(j) /\ Single(k) /\ j < k
        /\ log[k].cid \in log[j].overl
        /\ db = "connected"
        /\ log[j].keys # <<>> /\ log[j].keys = log[k].keys
        /\ \A x \in {j, k} :
             ~UpdateRaises(log[x].keys[1],
                           HandlerDict(log[x].path, log[x].source, log[x].items[1]))
        => /\ log[j].code = 200 /\ log[k].code = 200
           /\ log[j].created + log[k].created = 1
           /\ log[j].updated + log[k].updated = 1
           /\ log[k].nmatch[1] = 1

\* C4: once approve_listing has set a listing to approved, no ingestion takes
\* its status back to pending (here: even with the requests served one by one).
C4_ApprovedNotReverted ==
    [][\A i \in 1..Len(docs) :
          Serial /\ StatusOf(docs[i]) = "approved" => StatusOf(docs'[i]) # "pending"]_vars

\* C5: created_at is set by the write that creates a listing and no later
\* step (ingestion, approve, reject) changes it; listings are never removed.
C5_CreatedAtFixed ==
    [][/\ \A i \in 1..Len(docs) :
            /\ i <= Len(docs')
            /\ Has(docs'[i], "created_at")
            /\ docs'[i]["created_at"] = docs[i]["created_at"]
       /\ \A i \in (Len(docs) + 1)..Len(docs') :
            \E p \in Workers :
                /\ w[p].pc = "insert"
                /\ docs'[i]["created_at"] = PyTime(w[p].now)]_vars

\* a listing was created, refreshed by a later ingestion and approved, and its
\* updated_at has moved past its created_at
C5_Witness ==
    \E j, k \in Succeeded, m \in 1..Len(log) :
        /\ j < k /\ Single(j) /\ Single(k)
        /\ log[j].created = 1 /\ log[k].updated = 1 /\ log[k].ids = log[j].ids
        /\ log[m].path = "approve" /\ log[m].code = 200 /\ log[m].updated = 1
        /\ log[j].ids[1] = PyOid(log[m].lid)
        /\ docs[log[m].lid]["created_at"].n < docs[log[m].lid]["updated_at"].n

\* C6: every stored listing has updated_at >= created_at, also when two
\* ingestions of one dedup_key race.
C6_UpdatedNotBeforeCreated ==
    \A i \in 1..Len(docs) : docs[i]["updated_at"].n >= docs[i]["created_at"].n

\* the step is the refresh of listing i by worker p: update_one matched it
Refresh(p, i) ==
    /\ w[p].pc = "update_one"
    /\ w'[p].pc = "find_one"
    /\ i = FirstMatch(w[p].key)

\* C7: a refresh overwrites every field the payload supplies, sets updated_at
\* to the time the call read, and leaves created_at and status as they were
\* (here: even with the requests served one by one).
C7_RefreshKeepsStatus ==
    [][\A p \in Workers : \A i \in 1..Len(docs) :
          Serial /\ Refresh(p, i) =>
            /\ \A f \in DOMAIN w[p].items[w[p].i] \cap DOMAIN w[p].data :
                   docs'[i][f] = w[p].data[f]
            /\ docs'[i]["updated_at"] = PyTime(w[p].now)
            /\ docs'[i]["created_at"] = docs[i]["created_at"]
            /\ StatusOf(docs'[i]) = StatusOf(docs[i])]_vars

\* the key the identity rule prescribes for the dict a handler holds: the url
\* when there is a non-empty one, else title-price-posted_at with the empty
\* string for a component that is missing or unset
KeyPart(d, f) == IF Has(d, f) THEN Str(d[f]) ELSE ""
PrescribedKey(d) ==
    IF KeyPart(d, "url") # "" THEN KeyPart(d, "url")
    ELSE KeyPart(d, "title") \o "-" \o KeyPart(d, "price") \o "-" \o KeyPart(d, "posted_at")

\* C8: on both paths the dedup_key a handler computes is the prescribed key.
C8_DedupKeyAsPrescribed ==
    \A p \in Workers :
        w[p].pc \in {"update_one", "insert", "find_one"} =>
            Str(w[p].key) =
                PrescribedKey(HandlerDict(w[p].path, w[p].source, w[p].items[w[p].i]))

\* C9: payloads without a url that agree on title, price and posted_at map to
\* one dedup_key on either path, and the later of two such ingestions reports
\* updated.
C9_FallbackKeyCollapses ==
    \A j, k \in Succeeded :
        /\ Single(j) /\ Single(k) /\ j < k
        /\ log[j].items = log[k].items
        /\ ~Truthy(Get(log[j].items[1], "url"))
        => /\ log[j].keys = log[k].keys
           /\ After(j, k) => log[k].created = 0 /\ log[k].updated = 1

\* the payload breaks a declared constraint of Listing: title missing or
\* empty, or a negative price
ViolatesListing(item) ==
    \/ ~Has(item, "title")
    \/ item["title"].s = ""
    \/ Has(item, "price") /\ item["price"].n < 0

\* C10: no stored listing has a negative price or lacks a title, and an
\* ingestion whose payload breaks a Listing constraint is refused and leaves
\* no record.
C10_InvalidPayloadRefused ==
    /\ \A i \in 1..Len(docs) :
         /\ Has(docs[i], "title") /\ docs[i]["title"].s # ""
         /\ Has(docs[i], "price") => docs[i]["price"].n >= 0
    /\ \A j \in Ingestions :
         (\E k \in 1..Len(log[j].items) : ViolatesListing(log[j].items[k]))
            => log[j].code # 200

\* a request to an ingestion path whose source is outside the allow-list
BadSource(j) == j \in Ingestions /\ log[j].source \notin AllowedSources

\* C11: an ingestion whose source is outside the allow-list is rejected on
\* both paths before any store call, every stored listing's source is in the
\* allow-list, and the source an item carries never replaces the caller's.
C11_SourceFromCallerInAllowList ==
    /\ \A j \in Ingestions :
         BadSource(j) => /\ log[j].code \in {400, 422}
                         /\ log[j].keys = <<>> /\ log[j].ids = <<>>
    /\ \A p \in Workers :
         InFlight(p) /\ w[p].path \in {"ingest", "create"} =>
            /\ w[p].source \in AllowedSources
            /\ w[p].pc \in {"update_one", "insert", "find_one"} =>
                  w[p].data["source"] = PyStr(w[p].source)
    /\ \A i \in 1..Len(docs) :
         /\ Has(docs[i], "source")
         /\ docs[i]["source"].s \in AllowedSources
         /\ \/ \E j \in Ingestions : docs[i]["source"] = PyStr(log[j].source)
            \/ \E p \in Workers : InFlight(p) /\ docs[i]["source"] = PyStr(w[p].source)

\* both paths have refused an unknown source, and an item naming a source of
\* its own was stored under the caller's
C11_Witness ==
    /\ \E j \in Ingestions : BadSource(j) /\ log[j].path = "ingest" /\ log[j].code = 400
    /\ \E j \in Ingestions : BadSource(j) /\ log[j].path = "create" /\ log[j].code = 422
    /\ \E j \in Succeeded :
         /\ log[j].path = "ingest" /\ log[j].created = 1
         /\ Get(log[j].items[1], "source") = PyStr("craigslist")
         /\ docs[log[j].ids[1].n]["source"] = PyStr(log[j].source)

\* the number of items the batch of response j carried: the empty batch is
\* the only request whose loop runs over the body itself
BatchSize(j) == IF log[j].items = <<EmptyBatch>> THEN 0 ELSE Len(log[j].items)

\* C12: a batch ingestion of n items that completes returns n identifiers,
\* the i-th being the id of a record holding the i-th item's dedup_key, with
\* created + updated = n; items of one batch sharing a dedup_key count as
\* created at most once.
C12_BatchCountsItems ==
    \A j \in Succeeded :
        log[j].path = "ingest" =>
            /\ Len(log[j].ids) = BatchSize(j)
            /\ log[j].created + log[j].updated = BatchSize(j)
            /\ \A i \in 1..Len(log[j].ids) :
                 /\ log[j].ids[i].t = "ObjectId"
                 /\ log[j].ids[i].n \in 1..Len(docs)
                 /\ docs[log[j].ids[i].n]["dedup_key"] = log[j].keys[i]
            /\ log[j].created <= Cardinality({log[j].keys[i] : i \in 1..Len(log[j].keys)})

\* item i of the batch of response j is one the store accepts
ItemAccepted(j, i) ==
    LET it == HandlerDict(log[j].path, log[j].source, log[j].items[i])
    IN  ~UpdateRaises(DedupKey(it), upsert_data(it, DedupKey(it), 0))

\* C13: in a batch ingestion the failure of one item does not abort the
\* batch: with the store connected the call still returns its counters, and
\* every item the store accepts, before or after a failing one, is upserted.
C13_ItemFailureDoesNotAbort ==
    \A j \in Ingestions :
        /\ log[j].path = "ingest" /\ log[j].source \in AllowedSources /\ db = "connected"
        /\ \E i \in 1..Len(log[j].items) : ItemAccepted(j, i)
        =>  /\ log[j].code = 200
            /\ \A i \in 1..Len(log[j].items) :
                 ItemAccepted(j, i) =>
                    /\ i <= Len(log[j].keys)
                    /\ MatchIds(log[j].keys[i]) # {}

\* C14: with the store unconfigured or unreachable an ingestion call fails
\* and writes nothing, also when the store stops answering between two items
\* of a batch; for a call that began on an empty store and overlapped no
\* other call, the store is empty again when the call has failed.
C14_UnavailableStoreNoPartialWrite ==
    /\ db = "none" => docs = <<>> /\ \A j \in Ingestions : log[j].code # 200
    /\ \A j \in Ingestions :
         /\ log[j].code = 500
         /\ \A i \in 1..Len(log[j].items) : ItemAccepted(j, i)
         /\ log[j].fresh /\ log[j].overl = {}
         => log[j].ndocs = 0

\* C15: in every step the status of a stored listing stays as it is or goes
\* from pending to approved or from pending to rejected.
C15_StatusOnlyLeavesPending ==
    [][\A i \in 1..Len(docs) :
          \/ StatusOf(docs'[i]) = StatusOf(docs[i])
          \/ /\ StatusOf(docs[i]) = "pending"
             /\ StatusOf(docs'[i]) \in {"approved", "rejected"}]_vars

\* C16: the identifier an ingestion returned for a dedup_key stays the id of
\* a stored record holding that key, and every later ingestion of the key (a
\* later item of the same call, or a call that began after this one
\* returned) returns the same identifier.
C16_IdStablePerKey ==
    \A j \in Succeeded : \A a \in 1..Len(log[j].ids) :
        /\ log[j].ids[a].t = "ObjectId"
        /\ log[j].ids[a].n \in 1..Len(docs)
        /\ docs[log[j].ids[a].n]["_id"] = log[j].ids[a]
        /\ docs[log[j].ids[a].n]["dedup_key"] = log[j].keys[a]
        /\ \A k \in Succeeded : \A b \in 1..Len(log[k].ids) :
             /\ After(j, k) \/ (j = k /\ a < b)
             /\ log[k].keys[b] = log[j].keys[a]
             => log[k].ids[b] = log[j].ids[a]

\* the enrichment attributes of a record; a missing one reads as unset
Enrichment(doc) == [f \in EnrichmentFields |-> Get(doc, f)]

\* C17: no step of a handler (one that moves a request worker) changes the
\* enrichment attributes of a stored listing, whoever set them, and a record
\* a handler creates has them unset.
C17_IngestionLeavesEnrichment ==
    [][w' # w =>
          /\ \A i \in 1..Len(docs) : Enrichment(docs'[i]) = Enrichment(docs[i])
          /\ \A i \in (Len(docs) + 1)..Len(docs') :
                \A f \in EnrichmentFields : Get(docs'[i], f) = PyNone]_vars

\* C18: when update_one did not insert, the follow-up find_one finds a
\* record, so every identifier an ingestion has collected or returned is an
\* ObjectId, never None, under every interleaving with other ingestions and
\* with moderation calls.
C18_FindOneFindsRecord ==
    /\ \A p \in Workers : w[p].pc = "find_one" => MatchIds(w[p].key) # {}
    /\ \A p \in Workers :
         InFlight(p) => \A i \in 1..Len(w[p].ids) : w[p].ids[i].t = "ObjectId"
    /\ \A j \in Succeeded : \A i \in 1..Len(log[j].ids) : log[j].ids[i].t = "ObjectId"

\* an ingestion that refreshed a record, so that find_one supplied its
\* identifier, has returned, and a moderation call overlapped it
C18_Witness ==
    \E j \in Succeeded, m \in 1..Len(log) :
        /\ log[j].updated >= 1
        /\ log[m].path \in {"approve", "reject"} /\ log[m].code = 200 /\ log[m].updated = 1
        /\ log[m].cid \in log[j].overl
        /\ log[j].ids[1] = PyOid(log[m].lid)

\* the created outcomes reported by the first n responses: the created
\* counter of every ingestion that returned its result
RECURSIVE CreatedReported(_)
CreatedReported(n) ==
    IF n = 0 THEN 0
    ELSE CreatedReported(n - 1) + (IF n \in Succeeded THEN log[n].created ELSE 0)

\* C19: whenever no ingestion call is in flight, the collection holds as
\* many records as the ingestion calls so far have reported created.
C19_RecordsEqualCreated ==
    (\A p \in Workers : InFlight(p) => w[p].path \notin {"ingest", "create"})
        => Len(docs) = CreatedReported(Len(log))

====
